---- MODULE Spec2Model ----
(***************************************************************************)
(* Model of the numerical recipes of the wordcat-transformer notebooks:     *)
(*   - get_sentence_prob / get_directional_prob (bidirectional sentence     *)
(*     probability with a masked language model),                           *)
(*   - the target sub-token matching cell of Bank_embeddings.ipynb,         *)
(*   - get_top_predictions / print_top_predictions.                         *)
(* Python lists are sequences read with 0-based indices through At, Slice   *)
(* and SliceAssign. Probabilities are fixed-point numbers with unit ONE,    *)
(* logarithms are counted in half decades so that 0.5 * x is exact.         *)
(***************************************************************************)
EXTENDS Integers, Sequences, FiniteSets, TLC

VARIABLES
    \* ---- get_sentence_prob ----
    sentence,                  \* tokenizer.tokenize(sentence): the word pieces of the argument
    model,                     \* which pretrained model is loaded
    pc,                        \* position in get_sentence_prob
    tokenized_input,
    ids_input,
    i,                         \* loop variable of get_sentence_prob
    probs_forward,
    probs_backwards,
    log_prob_forward,
    log_prob_backwards,
    log_sent_prob_forward,
    log_sent_prob_backwards,
    log_geom_mean_sent_prob,
    sentence_prob,
    calls,                     \* history: every model(masked_input) evaluation, in order
    scored,                    \* history: the probabilities read in each loop iteration
    \* ---- Bank_embeddings: target matching ----
    mpc,
    target_ids,
    inputs_list,
    matches,
    matches_id,
    printed,                   \* the positions whose embedding was printed
    \* ---- get_top_predictions / print_top_predictions ----
    tpc,
    probs,
    k,
    thres,
    top_indexes,
    sorted_indexes,
    top_tokens,
    high_tokens

sentVars == <<sentence, model, pc, tokenized_input, ids_input, i, probs_forward,
              probs_backwards, log_prob_forward, log_prob_backwards,
              log_sent_prob_forward, log_sent_prob_backwards,
              log_geom_mean_sent_prob, sentence_prob, calls, scored>>
matchVars == <<mpc, target_ids, inputs_list, matches, matches_id, printed>>
topVars == <<tpc, probs, k, thres, top_indexes, sorted_indexes, top_tokens, high_tokens>>
vars == <<sentVars, matchVars, topVars>>

(***************************************************************************)
(* Bounds of the model.                                                     *)
(***************************************************************************)
MaxLen == 3          \* longest sentence, in word pieces, before [CLS]/[SEP] are added
MaxModel == 2        \* models 0..MaxModel
MaxLogit == 4        \* the logits of a model are in 0..MaxLogit (decades)

(***************************************************************************)
(* Python list primitives (0-based, negative indices count from the end).   *)
(***************************************************************************)
Min(a, b) == IF a < b THEN a ELSE b
Max(a, b) == IF a > b THEN a ELSE b

At(s, n) == s[(IF n < 0 THEN n + Len(s) ELSE n) + 1]

\* Python's slice bound normalisation: s[lo:hi] covers 0-based lo..hi-1
SliceBound(s, n) == IF n < 0 THEN Max(n + Len(s), 0) ELSE Min(n, Len(s))

Slice(s, lo, hi) == SubSeq(s, SliceBound(s, lo) + 1, SliceBound(s, hi))

\* s[lo:hi] = new
SliceAssign(s, lo, hi, new) ==
    LET a == SliceBound(s, lo)
        b == Max(SliceBound(s, hi), a)
    IN  SubSeq(s, 1, a) \o new \o SubSeq(s, b + 1, Len(s))

\* range(a, b) as a sequence
Range(a, b) == [n \in 1..Max(b - a, 0) |-> a + n - 1]

RECURSIVE SeqsUpTo(_, _)
SeqsUpTo(S, n) ==
    IF n = 0 THEN {<<>>}
    ELSE LET shorter == SeqsUpTo(S, n - 1)
         IN  shorter \cup {Append(s, x) : s \in {t \in shorter : Len(t) = n - 1}, x \in S}

(***************************************************************************)
(* Tokenizer.                                                               *)
(***************************************************************************)
BOS_TOKEN == "[CLS]"
EOS_TOKEN == "[SEP]"
MASK_TOKEN == "[MASK]"

\* the vocabulary of the tokenizer: a token's id is its 0-based place
Vocab == <<"[CLS]", "[SEP]", "[MASK]", "the", "cat">>
VocabSize == Len(Vocab)
Tokens == {Vocab[n] : n \in 1..VocabSize}

convert_token_to_id(t) == (CHOOSE n \in 1..VocabSize : Vocab[n] = t) - 1
convert_tokens_to_ids(ts) == [n \in 1..Len(ts) |-> convert_token_to_id(ts[n])]
convert_ids_to_tokens(ids) == [n \in 1..Len(ids) |-> Vocab[ids[n] + 1]]

(***************************************************************************)
(* The pretrained masked language model: an oracle from an id sequence to   *)
(* one row of logits per position. Model m is a fixed function; the family  *)
(* is chosen so that rows and entries differ.                               *)
(***************************************************************************)
\* sum(s[:n])
RECURSIVE SumTo(_, _)
SumTo(s, n) == IF n = 0 THEN 0 ELSE s[n] + SumTo(s, n - 1)

SumSeq(s) == SumTo(s, Len(s))

Logit(m, ids, pos, tok) ==
    ((tok + 1) * (pos + m + 1) + SumSeq(ids) + m * pos) % (MaxLogit + 1)

\* predictions[0]: a sequence (positions) of sequences (vocabulary) of logits
BertForMaskedLM(m, ids) ==
    [p \in 1..Len(ids) |-> [t \in 1..VocabSize |-> Logit(m, ids, p - 1, t - 1)]]

(***************************************************************************)
(* Numerics: torch.nn.Softmax, np.log10, np.power.                          *)
(***************************************************************************)
ONE == 1000          \* probability 1.0 in fixed point
NegInf == -1000000   \* np.log10(0) = -inf

RECURSIVE Pow10(_)
Pow10(n) == IF n <= 0 THEN 1 ELSE 10 * Pow10(n - 1)

\* max(s[:n]), n >= 1
RECURSIVE MaxTo(_, _)
MaxTo(s, n) == IF n = 1 THEN s[1] ELSE Max(s[n], MaxTo(s, n - 1))

MaxSeq(s) == MaxTo(s, Len(s))

\* exp(x - max) in fixed point; x <= 0 in decades; underflows to 0
ExpFx(x) == ONE \div Pow10(-x)

\* Softmax(dim=0) of one row of logits
Softmax(row) ==
    LET mx == MaxSeq(row)
        e == [n \in 1..Len(row) |-> ExpFx(row[n] - mx)]
        total == SumSeq(e)
    IN  [n \in 1..Len(row) |-> (e[n] * ONE) \div total]

RECURSIVE FloorLog10(_)
FloorLog10(p) == IF p < 10 THEN 0 ELSE 1 + FloorLog10(p \div 10)

\* np.log10 of a fixed-point probability, in half decades
Log10(p) == IF p = 0 THEN NegInf ELSE 2 * (FloorLog10(p) - FloorLog10(ONE))

\* faulty variant: the logarithm is subtracted from the running sum
LogAdd_Subtract(a, b) == IF a = NegInf \/ b = NegInf THEN NegInf ELSE a - b

\* float addition of logarithms: -inf absorbs
LogAdd(a, b) == IF a = NegInf \/ b = NegInf THEN NegInf ELSE a + b

\* 0.5 * x
Half(x) == IF x = NegInf THEN NegInf ELSE x \div 2

\* np.power(10, x), x in half decades: a float mant/1000 * 10^exp
Power10(x) ==
    IF x = NegInf THEN [mant |-> 0, exp |-> 0]
    ELSE [mant |-> IF x % 2 = 0 THEN 1000 ELSE 3162, exp |-> x \div 2]

(***************************************************************************)
(* get_directional_prob                                                     *)
(***************************************************************************)
\* [MASK_TOKEN for j in range(n)]
MaskList(n) == [j \in 1..Len(Range(0, n)) |-> MASK_TOKEN]

\* faulty variant: only the scored token is masked, in both directions
MaskedTokens_OnlyScored(tokens, pos, direction) ==
    SliceAssign(tokens, pos, pos + 1, MaskList(1))

\* faulty variant: the forward slice starts one token late, current_tokens[i+1:-1]
MaskedTokens_ForwardLate(tokens, pos, direction) ==
    IF direction = "backwards"
    THEN SliceAssign(tokens, 1, pos + 1, MaskList(pos))
    ELSE SliceAssign(tokens, pos + 1, -1, MaskList(Len(tokens) - 2 - pos))

\* faulty variant: the backward slice starts at 0, current_tokens[0:i]
MaskedTokens_BackwardEarly(tokens, pos, direction) ==
    IF direction = "backwards"
    THEN SliceAssign(tokens, 0, pos, MaskList(pos))
    ELSE SliceAssign(tokens, pos, -1, MaskList(Len(tokens) - 1 - pos))

\* current_tokens after the direction's slice assignment
MaskedTokens(tokens, pos, direction) ==
    IF direction = "backwards"
    THEN SliceAssign(tokens, 1, pos + 1, MaskList(pos))
    ELSE IF direction = "forward"
    THEN SliceAssign(tokens, pos, -1, MaskList(Len(tokens) - 1 - pos))
    ELSE tokens

\* masked_input = tokenizer.convert_tokens_to_ids(current_tokens)
MaskedInput(tokens, pos, direction) ==
    convert_tokens_to_ids(MaskedTokens(tokens, pos, direction))

\* probs = sm(predictions[0, i])
get_directional_prob(m, tokens, pos, direction) ==
    Softmax(At(BertForMaskedLM(m, MaskedInput(tokens, pos, direction)), pos))

\* the 0-based positions the direction's slice assignment writes
Replaced(tokens, pos, direction) ==
    IF direction = "backwards"
    THEN {SliceBound(tokens, 1) + n - 1 : n \in 1..Len(MaskList(pos))}
    ELSE IF direction = "forward"
    THEN {SliceBound(tokens, pos) + n - 1 : n \in 1..Len(MaskList(Len(tokens) - 1 - pos))}
    ELSE {}

\* the record of one model evaluation
Call(tokens, pos, direction) ==
    [direction |-> direction, i |-> pos,
     replaced |-> Replaced(tokens, pos, direction),
     masked_input |-> MaskedInput(tokens, pos, direction)]

(***************************************************************************)
(* get_sentence_prob                                                        *)
(***************************************************************************)
\* Pre-process sentence, adding special tokens
WithBos(ts) == IF At(ts, 0) # BOS_TOKEN THEN <<BOS_TOKEN>> \o ts ELSE ts
WithEos(ts) == IF At(ts, -1) # EOS_TOKEN THEN Append(ts, EOS_TOKEN) ELSE ts
PreProcessed(ts) == WithEos(WithBos(ts))

\* faulty variant: the loop runs over the last token too
LoopEnd_WithLast(ts) == Len(ts)

\* the loop's upper end: range(1, len(tokenized_input) - 1)
LoopEnd(ts) == Len(ts) - 1

\* the sentence is empty: tokenized_input[0] raises IndexError
PreProcessFails ==
    /\ pc = "start"
    /\ sentence = <<>>
    /\ pc' = "error"
    /\ UNCHANGED <<sentence, model, tokenized_input, ids_input, i, probs_forward,
                   probs_backwards, log_prob_forward, log_prob_backwards,
                   log_sent_prob_forward, log_sent_prob_backwards,
                   log_geom_mean_sent_prob, sentence_prob, calls, scored>>
    /\ UNCHANGED <<matchVars, topVars>>

PreProcess ==
    /\ pc = "start"
    /\ sentence # <<>>
    /\ tokenized_input' = PreProcessed(sentence)
    /\ ids_input' = convert_tokens_to_ids(tokenized_input')
    /\ log_sent_prob_forward' = 0
    /\ log_sent_prob_backwards' = 0
    /\ i' = 1
    /\ pc' = IF 1 < LoopEnd(tokenized_input') THEN "forward" ELSE "finish"
    /\ UNCHANGED <<sentence, model, probs_forward, probs_backwards, log_prob_forward,
                   log_prob_backwards, log_geom_mean_sent_prob, sentence_prob, calls,
                   scored>>
    /\ UNCHANGED <<matchVars, topVars>>

ForwardProb ==
    /\ pc = "forward"
    /\ probs_forward' = get_directional_prob(model, tokenized_input, i, "forward")
    /\ calls' = Append(calls, Call(tokenized_input, i, "forward"))
    /\ pc' = "backwards"
    /\ UNCHANGED <<sentence, model, tokenized_input, ids_input, i, probs_backwards,
                   log_prob_forward, log_prob_backwards, log_sent_prob_forward,
                   log_sent_prob_backwards, log_geom_mean_sent_prob, sentence_prob,
                   scored>>
    /\ UNCHANGED <<matchVars, topVars>>

BackwardsProb ==
    /\ pc = "backwards"
    /\ probs_backwards' = get_directional_prob(model, tokenized_input, i, "backwards")
    /\ calls' = Append(calls, Call(tokenized_input, i, "backwards"))
    /\ pc' = "accumulate"
    /\ UNCHANGED <<sentence, model, tokenized_input, ids_input, i, probs_forward,
                   log_prob_forward, log_prob_backwards, log_sent_prob_forward,
                   log_sent_prob_backwards, log_geom_mean_sent_prob, sentence_prob,
                   scored>>
    /\ UNCHANGED <<matchVars, topVars>>

\* faulty variant: the entry of the previous token is read
ScoredProb_Previous(ps, ids, pos) == At(ps, At(ids, pos - 1))

\* the probability read for position pos: probs[ids_input[i]]
ScoredProb(ps, ids, pos) == At(ps, At(ids, pos))

Accumulate ==
    /\ pc = "accumulate"
    /\ log_prob_forward' = Log10(ScoredProb(probs_forward, ids_input, i))
    /\ log_prob_backwards' = Log10(ScoredProb(probs_backwards, ids_input, i))
    /\ log_sent_prob_forward' = LogAdd(log_sent_prob_forward, log_prob_forward')
    /\ log_sent_prob_backwards' = LogAdd(log_sent_prob_backwards, log_prob_backwards')
    /\ scored' = Append(scored, [i |-> i,
                                  forward |-> ScoredProb(probs_forward, ids_input, i),
                                  backwards |-> ScoredProb(probs_backwards, ids_input, i)])
    /\ i' = i + 1
    /\ pc' = IF i + 1 < LoopEnd(tokenized_input) THEN "forward" ELSE "finish"
    /\ UNCHANGED <<sentence, model, tokenized_input, ids_input, probs_forward,
                   probs_backwards, log_geom_mean_sent_prob, sentence_prob, calls>>
    /\ UNCHANGED <<matchVars, topVars>>

\* faulty variant: the mean is also normalized by the number of scored tokens
GeomMean_Normalized(f, b) ==
    IF Half(LogAdd(f, b)) = NegInf THEN NegInf
    ELSE Half(LogAdd(f, b)) \div Max(Len(tokenized_input) - 2, 1)

\* Obtain geometric average of forward and backward probs
GeomMean(f, b) == Half(LogAdd(f, b))

Finish ==
    /\ pc = "finish"
    /\ log_geom_mean_sent_prob' = GeomMean(log_sent_prob_forward, log_sent_prob_backwards)
    /\ sentence_prob' = Power10(log_geom_mean_sent_prob')
    /\ pc' = "done"
    /\ UNCHANGED <<sentence, model, tokenized_input, ids_input, i, probs_forward,
                   probs_backwards, log_prob_forward, log_prob_backwards,
                   log_sent_prob_forward, log_sent_prob_backwards, calls, scored>>
    /\ UNCHANGED <<matchVars, topVars>>

None == "None"

MatchIdle ==
    /\ mpc = "idle"
    /\ target_ids = <<>>
    /\ inputs_list = <<>>
    /\ matches = <<>>
    /\ matches_id = <<>>
    /\ printed = <<>>

TopIdle ==
    /\ tpc = "idle"
    /\ probs = <<>>
    /\ k = 0
    /\ thres = 0
    /\ top_indexes = <<>>
    /\ sorted_indexes = <<>>
    /\ top_tokens = <<>>
    /\ high_tokens = <<>>

SentIdle ==
    /\ pc = "idle"
    /\ sentence = <<>>
    /\ model = 0
    /\ tokenized_input = <<>>
    /\ ids_input = <<>>
    /\ i = 0
    /\ probs_forward = <<>>
    /\ probs_backwards = <<>>
    /\ log_prob_forward = 0
    /\ log_prob_backwards = 0
    /\ log_sent_prob_forward = 0
    /\ log_sent_prob_backwards = 0
    /\ log_geom_mean_sent_prob = 0
    /\ sentence_prob = None
    /\ calls = <<>>
    /\ scored = <<>>

Init ==
    /\ sentence \in SeqsUpTo(Tokens, MaxLen)
    /\ model \in 0..MaxModel
    /\ pc = "start"
    /\ tokenized_input = <<>>
    /\ ids_input = <<>>
    /\ i = 0
    /\ probs_forward = <<>>
    /\ probs_backwards = <<>>
    /\ log_prob_forward = 0
    /\ log_prob_backwards = 0
    /\ log_sent_prob_forward = 0
    /\ log_sent_prob_backwards = 0
    /\ log_geom_mean_sent_prob = 0
    /\ sentence_prob = None
    /\ calls = <<>>
    /\ scored = <<>>
    /\ MatchIdle
    /\ TopIdle

Next ==
    \/ PreProcessFails
    \/ PreProcess
    \/ ForwardProb
    \/ BackwardsProb
    \/ Accumulate
    \/ Finish

Spec == Init /\ [][Next]_vars

(***************************************************************************)
(* Bank_embeddings.ipynb: the places of the target word in the sentence.    *)
(***************************************************************************)
MaxTarget == 3       \* longest target, in sub-tokens

\* tokenizer.encode(test_sent, add_special_tokens=True)
Encode(words) ==
    <<convert_token_to_id(BOS_TOKEN)>> \o convert_tokens_to_ids(words)
        \o <<convert_token_to_id(EOS_TOKEN)>>

\* faulty variant: the last start index is left out
MatchStarts_Short(inputs, target_len) == Range(0, Len(inputs) - target_len)

\* range(len(inputs_list) - target_len + 1)
MatchStarts(inputs, target_len) == Range(0, Len(inputs) - target_len + 1)

\* [target_ids == inputs_list[i:i+target_len] for i in range(...)]
Matches(target, inputs) ==
    LET target_len == Len(target)
        starts == MatchStarts(inputs, target_len)
    IN  [n \in 1..Len(starts) |-> target = Slice(inputs, starts[n], starts[n] + target_len)]

\* [j for j, val in enumerate(m[:n]) if val]
RECURSIVE TrueIndexes(_, _)
TrueIndexes(m, n) ==
    IF n = 0 THEN <<>>
    ELSE IF m[n] THEN Append(TrueIndexes(m, n - 1), n - 1)
    ELSE TrueIndexes(m, n - 1)

\* the cell that computes matches and matches_id
MatchCell ==
    /\ mpc = "start"
    /\ matches' = Matches(target_ids, inputs_list)
    /\ matches_id' = TrueIndexes(matches', Len(matches'))
    /\ mpc' = "print"
    /\ UNCHANGED <<target_ids, inputs_list, printed>>
    /\ UNCHANGED <<sentVars, topVars>>

\* for match in matches_id: print(outputs[0][0][match])
PrintMatch ==
    /\ mpc = "print"
    /\ Len(printed) < Len(matches_id)
    /\ At(matches_id, Len(printed)) < Len(inputs_list)
    /\ printed' = Append(printed, At(matches_id, Len(printed)))
    /\ UNCHANGED <<mpc, target_ids, inputs_list, matches, matches_id>>
    /\ UNCHANGED <<sentVars, topVars>>

\* outputs[0][0][match] with match = len(inputs_list): IndexError
PrintMatchFails ==
    /\ mpc = "print"
    /\ Len(printed) < Len(matches_id)
    /\ At(matches_id, Len(printed)) >= Len(inputs_list)
    /\ mpc' = "error"
    /\ UNCHANGED <<target_ids, inputs_list, matches, matches_id, printed>>
    /\ UNCHANGED <<sentVars, topVars>>

PrintDone ==
    /\ mpc = "print"
    /\ Len(printed) = Len(matches_id)
    /\ mpc' = "done"
    /\ UNCHANGED <<target_ids, inputs_list, matches, matches_id, printed>>
    /\ UNCHANGED <<sentVars, topVars>>

WordTokens == Tokens \ {BOS_TOKEN, EOS_TOKEN, MASK_TOKEN}

InitMatch ==
    /\ mpc = "start"
    /\ target_ids \in {convert_tokens_to_ids(t) : t \in SeqsUpTo(Tokens, MaxTarget)}
    /\ inputs_list \in {Encode(w) : w \in SeqsUpTo(WordTokens, MaxLen)}
    /\ matches = <<>>
    /\ matches_id = <<>>
    /\ printed = <<>>
    /\ SentIdle
    /\ TopIdle

NextMatch ==
    \/ MatchCell
    \/ PrintMatch
    \/ PrintMatchFails
    \/ PrintDone

SpecMatch == InitMatch /\ [][NextMatch]_vars

(***************************************************************************)
(* get_top_predictions / print_top_predictions                              *)
(***************************************************************************)
\* s[lo:]
SliceFrom(s, lo) == Slice(s, lo, Len(s))

\* the orders in which the elements of S can stand, as sequences
RECURSIVE Perms(_)
Perms(S) ==
    IF S = {} THEN {<<>>}
    ELSE UNION {{<<x>> \o f : f \in Perms(S \ {x})} : x \in S}

\* numpy's normalisation of kth; out of 0..n-1 is a ValueError
NormKth(kth, n) == IF kth < 0 THEN kth + n ELSE kth
KthInBounds(kth, n) == NormKth(kth, n) >= 0 /\ NormKth(kth, n) < n

\* np.argpartition(ps, kth): every index order in which the entry at place kth
\* is where a sort would put it, no greater entry before it, no smaller after it
ArgPartitions(ps, kth) ==
    LET n == Len(ps)
        kk == NormKth(kth, n)
    IN  {f \in Perms(0..(n - 1)) :
            /\ \A a \in 0..(kk - 1) : At(ps, At(f, a)) <= At(ps, At(f, kk))
            /\ \A a \in (kk + 1)..(n - 1) : At(ps, At(f, a)) >= At(ps, At(f, kk))}

\* idx[np.argsort(-ps[idx])]: idx reordered by descending ps, ties in any order
SortedDescending(ps, idx) ==
    {g \in Perms({idx[a] : a \in 1..Len(idx)}) :
        \A a \in 1..(Len(idx) - 1) : At(ps, g[a]) >= At(ps, g[a + 1])}

\* faulty variant: an entry equal to the threshold is kept, probs >= thres
RECURSIVE Where_Inclusive(_, _, _)
Where_Inclusive(ps, t, n) ==
    IF n = 0 THEN <<>>
    ELSE IF ps[n] >= t THEN Append(Where_Inclusive(ps, t, n - 1), n - 1)
    ELSE Where_Inclusive(ps, t, n - 1)

\* np.where(ps[:n] > t)[0]
RECURSIVE Where(_, _, _)
Where(ps, t, n) ==
    IF n = 0 THEN <<>>
    ELSE IF ps[n] > t THEN Append(Where(ps, t, n - 1), n - 1)
    ELSE Where(ps, t, n - 1)

\* top_indexes = np.argpartition(probs, -k)[-k:]
TopIndexes(ps, kk) == {SliceFrom(f, -kk) : f \in ArgPartitions(ps, -kk)}

get_top_predictions ==
    /\ tpc = "start"
    /\ KthInBounds(-k, Len(probs))
    /\ \E top \in TopIndexes(probs, k) :
         \E srt \in SortedDescending(probs, top) :
            /\ top_indexes' = top
            /\ sorted_indexes' = srt
            /\ top_tokens' = convert_ids_to_tokens(srt)
    /\ high_tokens' = convert_ids_to_tokens(Where(probs, thres, Len(probs)))
    /\ tpc' = "done"
    /\ UNCHANGED <<probs, k, thres>>
    /\ UNCHANGED <<sentVars, matchVars>>

print_top_predictions ==
    /\ tpc = "start"
    /\ KthInBounds(-k, Len(probs))
    /\ \E top \in TopIndexes(probs, k) :
         \E srt \in SortedDescending(probs, top) :
            /\ top_indexes' = top
            /\ sorted_indexes' = srt
            /\ top_tokens' = convert_ids_to_tokens(srt)
    /\ tpc' = "printed"
    /\ UNCHANGED <<probs, k, thres, high_tokens>>
    /\ UNCHANGED <<sentVars, matchVars>>

\* np.argpartition raises ValueError: kth out of bounds
TopPredictionsFails ==
    /\ tpc = "start"
    /\ ~KthInBounds(-k, Len(probs))
    /\ tpc' = "error"
    /\ UNCHANGED <<probs, k, thres, top_indexes, sorted_indexes, top_tokens, high_tokens>>
    /\ UNCHANGED <<sentVars, matchVars>>

\* the probability vectors given to the two functions: sm(predictions[0, i])
ProbVectors ==
    {Softmax(At(BertForMaskedLM(m, Encode(w)), 1)) :
        m \in 0..MaxModel, w \in {<<MASK_TOKEN>>, <<"the">>}}

\* thresholds tried, in fixed point (the default is 0.01)
Thresholds == {0, 9, ONE \div 100, 90}

InitTop ==
    /\ tpc = "start"
    /\ probs \in ProbVectors
    /\ k \in 0..(VocabSize + 1)
    /\ thres \in Thresholds
    /\ top_indexes = <<>>
    /\ sorted_indexes = <<>>
    /\ top_tokens = <<>>
    /\ high_tokens = <<>>
    /\ SentIdle
    /\ MatchIdle

NextTop ==
    \/ get_top_predictions
    \/ print_top_predictions
    \/ TopPredictionsFails

SpecTop == InitTop /\ [][NextTop]_vars

(***************************************************************************)
(* Properties of get_sentence_prob.                                         *)
(***************************************************************************)
SentLen == Len(tokenized_input)
MaskId == convert_token_to_id(MASK_TOKEN)
Positions == 1..(SentLen - 2)          \* the non-special positions
Returned == pc = "done"

\* log10 of a float mant/1000 * 10^exp, in half decades
LogOfFloat(f) ==
    IF f.mant = 0 THEN NegInf ELSE 2 * f.exp + (IF f.mant >= 3162 THEN 1 ELSE 0)

\* the log-probability of the token at pos given the direction's context
TokenLogProb(pos, direction) ==
    Log10(At(get_directional_prob(model, tokenized_input, pos, direction),
             At(ids_input, pos)))

RECURSIVE SumLogProb(_, _)
SumLogProb(n, direction) ==
    IF n = 0 THEN 0 ELSE LogAdd(SumLogProb(n - 1, direction), TokenLogProb(n, direction))

\* C1: the returned value is the un-normalized geometric mean of the forward and
\* backward sentence probabilities: twice its base-10 logarithm is the sum over
\* positions 1..L-2 of the forward log-probabilities plus the sum of the backward
\* ones, with no division by the number of tokens (and it is 0 exactly when one of
\* the sums is -inf).
C1_GeometricMean ==
    Returned =>
        LET f == SumLogProb(SentLen - 2, "forward")
            b == SumLogProb(SentLen - 2, "backwards")
        IN  IF f = NegInf \/ b = NegInf
            THEN sentence_prob.mant = 0
            ELSE /\ sentence_prob.mant # 0
                 /\ 2 * LogOfFloat(sentence_prob) = f + b

C1_Witness ==
    /\ Returned
    /\ SentLen >= 4
    /\ sentence_prob.mant # 0
    /\ LogOfFloat(sentence_prob) < 0
    /\ log_sent_prob_forward # log_sent_prob_backwards

\* C2 (as stated): in every model evaluation exactly one token, the scored one, is
\* replaced by [MASK] and every other token is given to the model as in the sentence.
C2_ExactlyOneMasked ==
    \A n \in 1..Len(calls) :
        LET c == calls[n]
        IN  /\ c.replaced = {c.i}
            /\ At(c.masked_input, c.i) = MaskId
            /\ \A j \in 0..(SentLen - 1) :
                   j # c.i => At(c.masked_input, j) = At(ids_input, j)

\* C2 (amended): in every model evaluation the scored token is replaced by [MASK]
\* together with every later non-special token (forward: L-1-i tokens) or every
\* earlier non-special token (backwards: i tokens); the input keeps the sentence's
\* length and every token that is not replaced is given as in the sentence.
C2_ScoredSideMasked ==
    \A n \in 1..Len(calls) :
        LET c == calls[n]
        IN  /\ Len(c.masked_input) = SentLen
            /\ c.i \in c.replaced
            /\ Cardinality(c.replaced) =
                   (IF c.direction = "forward" THEN SentLen - 1 - c.i ELSE c.i)
            /\ c.replaced \subseteq Positions
            /\ \A j \in 0..(SentLen - 1) :
                   At(c.masked_input, j) = (IF j \in c.replaced THEN MaskId
                                            ELSE At(ids_input, j))

C2_Witness ==
    /\ Len(calls) >= 2
    /\ \E n \in 1..Len(calls) :
           /\ Cardinality(calls[n].replaced) >= 2
           /\ \E j \in calls[n].replaced :
                  j # calls[n].i /\ At(ids_input, j) # MaskId

\* C3: the forward evaluation at i has [MASK] at every position i..L-2 and the
\* original tokens at positions 0..i-1 and L-1; at i = 1 every non-special
\* position is masked.
C3_ForwardLeftContext ==
    \A n \in 1..Len(calls) :
        LET c == calls[n]
        IN  c.direction = "forward" =>
                /\ c.i \in Positions
                /\ Len(c.masked_input) = SentLen
                /\ \A j \in c.i..(SentLen - 2) : At(c.masked_input, j) = MaskId
                /\ \A j \in 0..(c.i - 1) : At(c.masked_input, j) = At(ids_input, j)
                /\ At(c.masked_input, SentLen - 1) = At(ids_input, SentLen - 1)
                /\ c.i = 1 => \A j \in Positions : At(c.masked_input, j) = MaskId

C3_Witness ==
    \E n \in 1..Len(calls) :
        /\ calls[n].direction = "forward"
        /\ calls[n].i = 2
        /\ SentLen = 5
        /\ \A j \in Positions : At(ids_input, j) # MaskId
        /\ At(calls[n].masked_input, 1) # MaskId

\* C4: the backward evaluation at i has [MASK] at every position 1..i and the
\* original tokens at positions 0 and i+1..L-1; at i = L-2 every non-special
\* position is masked.
C4_BackwardRightContext ==
    \A n \in 1..Len(calls) :
        LET c == calls[n]
        IN  c.direction = "backwards" =>
                /\ c.i \in Positions
                /\ Len(c.masked_input) = SentLen
                /\ \A j \in 1..c.i : At(c.masked_input, j) = MaskId
                /\ At(c.masked_input, 0) = At(ids_input, 0)
                /\ \A j \in (c.i + 1)..(SentLen - 1) :
                       At(c.masked_input, j) = At(ids_input, j)
                /\ c.i = SentLen - 2 => \A j \in Positions : At(c.masked_input, j) = MaskId

C4_Witness ==
    \E n \in 1..Len(calls) :
        /\ calls[n].direction = "backwards"
        /\ calls[n].i = 2
        /\ SentLen = 5
        /\ \A j \in Positions : At(ids_input, j) # MaskId
        /\ At(calls[n].masked_input, 3) # MaskId

\* C5 (as stated): every per-token probability passed to log10 is strictly positive.
C5_NoLogOfZero ==
    pc = "accumulate" =>
        /\ ScoredProb(probs_forward, ids_input, i) > 0
        /\ ScoredProb(probs_backwards, ids_input, i) > 0

\* the order forward(1), backward(1), ..., forward(L-2), backward(L-2)
CallsInOrder ==
    /\ Len(calls) <= 2 * (SentLen - 2) \/ calls = <<>>
    /\ \A n \in 1..Len(calls) :
           /\ calls[n].i = (n + 1) \div 2
           /\ calls[n].i \in Positions
           /\ calls[n].direction = (IF n % 2 = 1 THEN "forward" ELSE "backwards")
    /\ Returned => Len(calls) = 2 * (SentLen - 2)

\* how far get_sentence_prob has come: every step moves it on, up to RankDone
Rank ==
    CASE pc = "start" -> 0
      [] pc = "error" -> 1
      [] pc = "forward" -> 3 * (i - 1) + 1
      [] pc = "backwards" -> 3 * (i - 1) + 2
      [] pc = "accumulate" -> 3 * (i - 1) + 3
      [] pc = "finish" -> 3 * (SentLen - 2) + 1
      [] pc = "done" -> 3 * (SentLen - 2) + 2
      [] OTHER -> 0
RankDone == IF pc \in {"start", "error"} THEN 1 ELSE 3 * (SentLen - 2) + 2

\* C6: the model is evaluated exactly twice per non-special position, in the order
\* forward(1), backward(1), ..., forward(L-2), backward(L-2), never at position 0
\* or L-1, 2*(L-2) times in total, and then get_sentence_prob returns: every step
\* moves the loop on towards the return, which is 3*(L-2)+2 steps away.
C6_EvaluationOrder ==
    /\ []CallsInOrder
    /\ [](Rank <= RankDone)
    /\ [][Rank' > Rank /\ (pc # "start" => RankDone' = RankDone)]_vars

C6_Witness ==
    /\ Returned
    /\ Len(calls) = 2 * MaxLen
    /\ SentLen = MaxLen + 2

\* C7: the probability accumulated for position i, in both directions, is the
\* entry for the sentence's original token id at position i in the softmax of
\* row i of the model's output, and position i is [MASK] in the input that
\* produced it.
C7_ScoredEntry ==
    /\ Len(scored) * 2 <= Len(calls)
    /\ \A n \in 1..Len(scored) :
           LET s == scored[n]
               cf == calls[2 * n - 1]
               cb == calls[2 * n]
               tok == convert_token_to_id(At(PreProcessed(sentence), n))
               entry(c) == Softmax(BertForMaskedLM(model, c.masked_input)[n + 1])[tok + 1]
           IN  /\ s.i = n
               /\ cf.i = n /\ cb.i = n
               /\ At(cf.masked_input, n) = MaskId
               /\ At(cb.masked_input, n) = MaskId
               /\ s.forward = entry(cf)
               /\ s.backwards = entry(cb)
    /\ (scored # <<>> /\ pc # "accumulate") =>
           /\ log_prob_forward = Log10(scored[Len(scored)].forward)
           /\ log_prob_backwards = Log10(scored[Len(scored)].backwards)

C7_Witness ==
    /\ Len(scored) = 3
    /\ scored[2].forward # scored[2].backwards
    /\ scored[2].forward # scored[1].forward
    /\ At(ids_input, 1) # At(ids_input, 2)
    /\ At(ids_input, 2) # MaskId

FloatAtMostOne(f) == f.mant = 0 \/ f.exp < 0 \/ (f.exp = 0 /\ f.mant <= 1000)

\* C8: the accumulated forward and backward log-probabilities never increase from
\* one step to the next and are never above 0, and the returned sentence
\* probability is at most 1.
C8_LogProbsShrink ==
    /\ [](log_sent_prob_forward <= 0 /\ log_sent_prob_backwards <= 0)
    /\ [](Returned => FloatAtMostOne(sentence_prob))
    /\ [][/\ log_sent_prob_forward' <= log_sent_prob_forward
          /\ log_sent_prob_backwards' <= log_sent_prob_backwards]_vars

C8_Witness ==
    /\ Len(scored) = 2
    /\ pc = "forward"
    /\ log_sent_prob_forward < log_prob_forward
    /\ log_prob_forward < 0
    /\ log_sent_prob_backwards < log_prob_backwards
    /\ log_prob_backwards < 0

(***************************************************************************)
(* Properties of the target matching cell.                                  *)
(***************************************************************************)
\* the target's whole id sequence stands in inputs_list from 0-based place j on
OccursAt(j) ==
    /\ j + Len(target_ids) <= Len(inputs_list)
    /\ \A t \in 1..Len(target_ids) : inputs_list[j + t] = target_ids[t]

\* C9: for a target of one or more sub-tokens, matches_id holds exactly the
\* indices j at which the target's id sequence occurs contiguously in the
\* sentence's ids: each once, in ascending order, nothing else, and none when
\* the target does not occur or is longer than the sentence.
C9_MatchesExact ==
    (mpc # "start" /\ Len(target_ids) >= 1) =>
        /\ \A j \in 0..Len(inputs_list) :
               (\E n \in 1..Len(matches_id) : matches_id[n] = j) <=> OccursAt(j)
        /\ \A n \in 1..Len(matches_id) : matches_id[n] \in 0..(Len(inputs_list) - 1)
        /\ \A n \in 1..(Len(matches_id) - 1) : matches_id[n] < matches_id[n + 1]
        /\ Len(target_ids) > Len(inputs_list) => matches_id = <<>>

C9_Witness ==
    /\ mpc = "done"
    /\ Len(target_ids) = 2
    /\ Len(matches_id) = 2
    /\ printed = matches_id

(***************************************************************************)
(* Properties of get_top_predictions / print_top_predictions.               *)
(***************************************************************************)
Selected == {sorted_indexes[n] : n \in 1..Len(sorted_indexes)}

\* the selected entries are highest ones, in descending order, each once
TopSelection ==
    /\ Cardinality(Selected) = Len(sorted_indexes)
    /\ \A a \in Selected : \A b \in (0..(Len(probs) - 1)) \ Selected :
           At(probs, b) <= At(probs, a)
    /\ \A n \in 1..(Len(sorted_indexes) - 1) :
           At(probs, sorted_indexes[n]) >= At(probs, sorted_indexes[n + 1])
    /\ top_tokens = convert_ids_to_tokens(sorted_indexes)

\* C10 (as stated): for every k in 0..len(probs), exactly k tokens are selected,
\* no unselected entry has a strictly greater probability than a selected one,
\* and they are ordered by descending probability.
C10_TopK ==
    (tpc \in {"done", "printed"} /\ k \in 0..Len(probs)) =>
        /\ Len(sorted_indexes) = k
        /\ TopSelection

\* what holds of the code: the claim for k >= 1; at k = 0 every entry is selected
C10_TopKPositive ==
    tpc \in {"done", "printed"} =>
        /\ Len(sorted_indexes) = (IF k = 0 THEN Len(probs) ELSE k)
        /\ TopSelection

\* the token ids of the second result
HighIds == convert_tokens_to_ids(high_tokens)

\* C11: the second result of get_top_predictions is exactly the tokens whose
\* probability is strictly greater than thres, in ascending token-id order, each
\* once; it is the same for every k the call returns with, and an entry equal to
\* thres is left out.
C11_AboveThreshold ==
    tpc = "done" =>
        /\ \A j \in 0..(Len(probs) - 1) :
               (\E n \in 1..Len(HighIds) : HighIds[n] = j) <=> At(probs, j) > thres
        /\ \A n \in 1..(Len(HighIds) - 1) : HighIds[n] < HighIds[n + 1]
        /\ \A n \in 1..Len(HighIds) : HighIds[n] \in 0..(Len(probs) - 1)
        /\ \A j \in 0..(Len(probs) - 1) :
               At(probs, j) = thres => \A n \in 1..Len(HighIds) : HighIds[n] # j

C11_Witness ==
    /\ tpc = "done"
    /\ k = 1
    /\ Len(high_tokens) = 2
    /\ \E j \in 0..(Len(probs) - 1) : At(probs, j) = thres /\ thres > 0
    /\ \E j \in 0..(Len(probs) - 1) : At(probs, j) < thres
    /\ \E n \in 1..Len(HighIds) : HighIds[n] \notin {top_indexes[a] : a \in 1..Len(top_indexes)}

====
